---- MODULE Spec2Model ----
(***************************************************************************)
(* Model of utils/frame/benchmarking-cli/src/writer.rs: the grouping of    *)
(* benchmark batches by pallet (map_results), the extraction of the fitted *)
(* coefficients of one batch (get_benchmark_data), the writing of one      *)
(* rendered file per pallet (write_results) and the thousands-separator    *)
(* helper (underscore).                                                    *)
(*                                                                         *)
(* Representation.                                                         *)
(*  - A u128 is a sequence of 16-bit limbs, least significant first, so    *)
(*    that the full 128-bit width is kept with machine-sized arithmetic.   *)
(*  - A String / Vec<u8> holding a name is a sequence of its '.'-separated *)
(*    segments (<<"p1">> is "p1", <<"p1","x">> is "p1.x"); only valid      *)
(*    UTF-8 is drawn, on which String::from_utf8(..).unwrap() keeps the    *)
(*    text.  A digit string is a sequence of one-character strings.        *)
(*  - A HashMap is a function whose DOMAIN is its key set.                 *)
(*  - A PathBuf is the sequence of its components; the component ".." is   *)
(*    ParentDir and every other component is a name (segments).            *)
(***************************************************************************)
EXTENDS Integers, Sequences, FiniteSets, TLC

VARIABLES
    \* write_results / map_results
    batches,         \* the `batches` argument
    path,            \* the `path` argument
    pc,              \* position in write_results
    pos,             \* number of batches consumed from batches_iter
    all_benchmarks,  \* map_results: local all_benchmarks
    pallet_map,      \* map_results: local pallet_map
    ret,             \* value returned by map_results (None until it returns)
    todo,            \* keys of all_results not yet visited by the for loop
    all_results,     \* write_results: local all_results
    files,           \* the file system: path -> contents
    out,             \* value returned by write_results (None until it returns)
    \* get_benchmark_data
    batch,           \* the `batch` argument
    data,            \* the BenchmarkData returned (None until it returns)
    \* underscore
    i_str,           \* i.to_string()
    s                \* Some(the String returned), None until it returns

vars == <<batches, path, pc, pos, all_benchmarks, pallet_map, ret, todo,
          all_results, files, out, batch, data, i_str, s>>

writerVars == <<batches, path, pc, pos, all_benchmarks, pallet_map, ret, todo,
                all_results, files, out>>
dataVars == <<batch, data>>
underscoreVars == <<i_str, s>>

None == [tag |-> "None"]
Some(v) == [tag |-> "Some", val |-> v]

(***************************************************************************)
(* Bounds of the model.                                                    *)
(***************************************************************************)
\* Longest batch sequence given to map_results alone (SpecMap).
MaxBatches == 4
\* Longest batch sequence given to write_results (Spec).
MaxWriteBatches == 2
\* Most components of a batch given to get_benchmark_data (SpecData).
MaxComponents == 2
\* Longest digit string given to underscore (SpecUnderscore).
MaxDigits == 7

(***************************************************************************)
(* u128 arithmetic on limbs.                                               *)
(***************************************************************************)
LimbBase == 2 ^ 16
NumLimbs == 128 \div 16

\* The u128 with value n, for 0 <= n < 2^31.
U(n) == <<n % LimbBase, n \div LimbBase, 0, 0, 0, 0, 0, 0>>

\* u128::MAX = 2^128 - 1
U128Max == <<65535, 65535, 65535, 65535, 65535, 65535, 65535, 65535>>

\* sp_runtime::traits::Zero::is_zero
is_zero(x) == x = U(0)

\* The limbs of x * k + carry, one limb longer than x: the last limb is
\* what does not fit in the width of x.
RECURSIVE MulLimbs(_, _, _)
MulLimbs(x, k, carry) ==
    IF x = <<>> THEN <<carry>>
    ELSE LET p == Head(x) * k + carry
         IN  <<p % LimbBase>> \o MulLimbs(Tail(x), k, p \div LimbBase)

\* u128::checked_mul by a small factor k (0 <= k < 2^15).
checked_mul(x, k) ==
    LET r == MulLimbs(x, k, 0)
    IN  IF r[NumLimbs + 1] = 0
        THEN Some(SubSeq(r, 1, NumLimbs))
        ELSE None

\* u128::saturating_mul: the product, or u128::MAX when it does not fit.
saturating_mul(x, k) ==
    LET c == checked_mul(x, k)
    IN  IF c.tag = "Some" THEN c.val ELSE U128Max

\* Variants of scale_weight: another multiplier, and the product modulo
\* 2^128 as u128::wrapping_mul gives it.
scale_weight_by_100(v) == saturating_mul(v, 100)
scale_weight_wrapping(v) == SubSeq(MulLimbs(v, 1000, 0), 1, NumLimbs)
\* The two places that turn a fitted time into a weight:
\* slope.saturating_mul(1000) and extrinsic_time.base.saturating_mul(1000).
scale_weight(v) == saturating_mul(v, 1000)

(***************************************************************************)
(* get_benchmark_data                                                      *)
(***************************************************************************)
\* BenchmarkParameter is the enum a, b, ..., z; a parameter is its index.
ParamNames == <<"a", "b", "c", "d", "e", "f", "g", "h", "i", "j", "k", "l", "m",
                "n", "o", "p", "q", "r", "s", "t", "u", "v", "w", "x", "y", "z">>

\* name.to_string() of a BenchmarkParameter
to_string(param) == ParamNames[param]

\* Analysis::min_squares_iqr(&batch.results, selector).unwrap(): base, one
\* slope per component of the first result, and the components' names.  The
\* regression is not part of writer.rs; a batch's results carry the three
\* fits the regression derives from them.
min_squares_iqr(results, selector) ==
    [base   |-> results[1].fit[selector].base,
     slopes |-> results[1].fit[selector].slopes,
     names  |-> [i \in 1..Len(results[1].components) |->
                    to_string(results[1].components[i][1])]]

\* Vec::contains
contains(v, x) == \E i \in 1..Len(v) : v[i] = x

\* A variant of keeps that filters nothing.
keeps_every_slope(slope) == TRUE
\* The test `!slope.is_zero()` of the three for_each closures.
keeps(slope) == ~is_zero(slope)

\* One of the three `slopes.into_iter().zip(names.iter()).for_each(..)`
\* loops, from pair i on.  st holds used_components and the used_* vector
\* of this analysis; scaled says whether the slope is stored as
\* slope.saturating_mul(1000) (extrinsic time) or as it is (reads, writes).
RECURSIVE for_each_slope(_, _, _, _)
for_each_slope(analysis, scaled, st, i) ==
    IF i > Len(analysis.slopes) \/ i > Len(analysis.names) THEN st
    ELSE LET slope == analysis.slopes[i]
             name  == analysis.names[i]
         IN  IF keeps(slope)
             THEN for_each_slope(analysis, scaled,
                    [used_components |->
                        IF ~contains(st.used_components, name)
                        THEN Append(st.used_components, name)
                        ELSE st.used_components,
                     used |-> Append(st.used,
                        [name  |-> name,
                         slope |-> IF scaled THEN scale_weight(slope) ELSE slope])],
                    i + 1)
             ELSE for_each_slope(analysis, scaled, st, i + 1)

\* A variant of is_used with the marker inverted.
is_unused(used_components, name_string) == ~contains(used_components, name_string)
\* `used_components.contains(&&name_string)`
is_used(used_components, name_string) == contains(used_components, name_string)

get_benchmark_data(b) ==
    LET extrinsic_time == min_squares_iqr(b.results, "ExtrinsicTime")
        reads  == min_squares_iqr(b.results, "Reads")
        writes == min_squares_iqr(b.results, "Writes")
        t == for_each_slope(extrinsic_time, TRUE,
                [used_components |-> <<>>, used |-> <<>>], 1)
        r == for_each_slope(reads, FALSE,
                [used_components |-> t.used_components, used |-> <<>>], 1)
        w == for_each_slope(writes, FALSE,
                [used_components |-> r.used_components, used |-> <<>>], 1)
        components ==
            [i \in 1..Len(b.results[1].components) |->
                LET name_string == to_string(b.results[1].components[i][1])
                IN  [name    |-> name_string,
                     is_used |-> is_used(w.used_components, name_string)]]
    IN  [name             |-> b.benchmark,
         components       |-> components,
         base_weight      |-> scale_weight(extrinsic_time.base),
         base_reads       |-> reads.base,
         base_writes      |-> writes.base,
         component_weight |-> t.used,
         component_reads  |-> r.used,
         component_writes |-> w.used]

(***************************************************************************)
(* Inputs of get_benchmark_data.                                           *)
(***************************************************************************)
\* floor(u128::MAX / 1000) and its successor: the largest time that can be
\* scaled without saturating, and the smallest that cannot.
MaxScalable == <<6291, 22020, 11534, 40370, 42991, 19398, 35127, 65>>
MinSaturating == <<6292, 22020, 11534, 40370, 42991, 19398, 35127, 65>>

TimeBases == {U(0), U(70000), MaxScalable, MinSaturating}
TimeSlopes == {U(0), U(3), MinSaturating}
CountBases == {U(0), U(10)}
CountSlopes == {U(0), U(3)}

\* The parameters a benchmark may vary: a, b and z.
Params == {1, 2, 26}

\* The component lists of a result: distinct parameters, each with a value.
ComponentSeqs ==
    {[i \in 1..Len(ps) |-> <<ps[i], 0>>] :
        ps \in {q \in UNION {[1..n -> Params] : n \in 0..MaxComponents} :
                    \A i, j \in 1..Len(q) : i # j => q[i] # q[j]}}

Fits(bases, slopes, n) ==
    {[base |-> bs, slopes |-> sl] : bs \in bases, sl \in [1..n -> slopes]}

\* A batch with results: its first result's components and the three fits.
Batch(pallet, benchmark, cs, ft, fr, fw) ==
    [pallet    |-> pallet,
     benchmark |-> benchmark,
     results   |-> <<[components |-> cs,
                      fit |-> [ExtrinsicTime |-> ft, Reads |-> fr, Writes |-> fw]]>>]

\* Values of the variables a specification does not use.
WriterIdle ==
    /\ batches = <<>> /\ path = <<>> /\ pc = "idle" /\ pos = 0
    /\ all_benchmarks = <<>> /\ pallet_map = <<>> /\ ret = None /\ todo = {}
    /\ all_results = <<>> /\ files = <<>> /\ out = None
DataIdle == batch = None /\ data = None
UnderscoreIdle == i_str = <<>> /\ s = None

InitData ==
    /\ \E cs \in ComponentSeqs :
         \E ft \in Fits(TimeBases, TimeSlopes, Len(cs)),
            fr \in Fits(CountBases, CountSlopes, Len(cs)),
            fw \in Fits(CountBases, CountSlopes, Len(cs)) :
            batch = Batch(<<"p1">>, <<"b1">>, cs, ft, fr, fw)
    /\ data = None
    /\ WriterIdle /\ UnderscoreIdle

GetBenchmarkData ==
    /\ batch # None /\ data = None
    /\ data' = get_benchmark_data(batch)
    /\ UNCHANGED <<batch, writerVars, underscoreVars>>

NextData == GetBenchmarkData

SpecData == InitData /\ [][NextData]_vars

(***************************************************************************)
(* Claims about get_benchmark_data (checked under SpecData).               *)
(***************************************************************************)
\* Quotient and remainder of the u128 x by a small k, by long division from
\* limb i down to limb 1.
RECURSIVE DivFrom(_, _, _, _)
DivFrom(x, k, i, rem) ==
    IF i = 0 THEN [q |-> <<>>, r |-> rem]
    ELSE LET cur  == rem * LimbBase + x[i]
             rest == DivFrom(x, k, i - 1, cur % k)
         IN  [q |-> Append(rest.q, cur \div k), r |-> rest.r]

\* r = 1000 * v, as integers.
IsThousandTimes(r, v) == DivFrom(r, 1000, NumLimbs, 0) = [q |-> v, r |-> 0]

\* x <= y, as integers.
LeU(x, y) ==
    \/ x = y
    \/ \E i \in 1..NumLimbs :
          /\ x[i] < y[i]
          /\ \A j \in (i + 1)..NumLimbs : x[j] = y[j]

\* 1000 * v fits in a u128.
FitsScaled(v) == LeU(v, MaxScalable)

\* r = min(1000 * v, 2^128 - 1)
IsSaturatedScale(r, v) ==
    IF FitsScaled(v) THEN IsThousandTimes(r, v) ELSE r = U128Max

Returned == data # None
InComponents == batch.results[1].components
InNames == [i \in 1..Len(InComponents) |-> ParamNames[InComponents[i][1]]]
InTime == batch.results[1].fit.ExtrinsicTime
InReads == batch.results[1].fit.Reads
InWrites == batch.results[1].fit.Writes
Zero == <<0, 0, 0, 0, 0, 0, 0, 0>>

\* The positions of the non-zero slopes of a fit, in order.
NonZeroAt(fit) ==
    SelectSeq([i \in 1..Len(fit.slopes) |-> i], LAMBDA i : fit.slopes[i] # Zero)

\* Every entry of `used` carries the name of a component and, as slope,
\* the fitted slope of that component seen through Rel.
EachSlope(used, fit, Rel(_, _)) ==
    \A k \in 1..Len(used) :
        /\ \E i \in 1..Len(InNames) : InNames[i] = used[k].name
        /\ \A i \in 1..Len(InNames) :
              InNames[i] = used[k].name => Rel(used[k].slope, fit.slopes[i])

ScaledIfFits(r, v) == FitsScaled(v) => IsThousandTimes(r, v)
Untouched(r, v) == r = v

\* C3: base_weight and every slope of component_weight are 1000 times the
\* fitted extrinsic-time value whenever that product fits in a u128, and
\* base_reads, base_writes and the slopes of component_reads and
\* component_writes are the fitted values unchanged.
C3_TimeScaledCountsUntouched ==
    Returned =>
        /\ ScaledIfFits(data.base_weight, InTime.base)
        /\ EachSlope(data.component_weight, InTime, ScaledIfFits)
        /\ data.base_reads = InReads.base
        /\ data.base_writes = InWrites.base
        /\ EachSlope(data.component_reads, InReads, Untouched)
        /\ EachSlope(data.component_writes, InWrites, Untouched)

C3_Witness ==
    /\ Returned
    /\ InTime.base = U(70000) /\ data.base_weight = <<7552, 1068, 0, 0, 0, 0, 0, 0>>
    /\ Len(data.component_weight) = 2
    /\ data.component_weight[1].slope = U(3000)
    /\ InReads.base = U(10) /\ data.base_reads = U(10)
    /\ Len(data.component_reads) = 1 /\ data.component_reads[1].slope = U(3)
    /\ Len(data.component_writes) = 1

\* C4: components has one entry per component of the first result, in the
\* same order, and an entry is marked used exactly when the component's
\* fitted slope is non-zero in at least one of the three analyses.
C4_UsedIffSomeSlopeNonZero ==
    Returned =>
        /\ Len(data.components) = Len(InComponents)
        /\ \A i \in 1..Len(InComponents) :
              /\ data.components[i].name = InNames[i]
              /\ data.components[i].is_used <=>
                    \/ InTime.slopes[i] # Zero
                    \/ InReads.slopes[i] # Zero
                    \/ InWrites.slopes[i] # Zero

C4_Witness ==
    /\ Returned
    /\ Len(InComponents) = 2
    /\ InTime.slopes = <<Zero, Zero>> /\ InReads.slopes = <<Zero, Zero>>
    /\ InWrites.slopes = <<U(3), Zero>>
    /\ data.components = <<[name |-> "z", is_used |-> TRUE],
                            [name |-> "a", is_used |-> FALSE]>>

\* The list `used` holds exactly the non-zero slopes of `fit`, in the fit's
\* order, each with the name at its position and seen through Rel.
ExactlyNonZero(used, fit, Rel(_, _)) ==
    LET at == NonZeroAt(fit)
    IN  /\ Len(used) = Len(at)
        /\ \A k \in 1..Len(at) :
              /\ used[k].name = InNames[at[k]]
              /\ Rel(used[k].slope, fit.slopes[at[k]])
              /\ used[k].slope # Zero

\* C7: component_weight, component_reads and component_writes each hold
\* exactly the (name, slope) pairs of their own analysis whose slope is
\* non-zero, in the analysis' order and with the name of the same position;
\* no listed slope is zero and no non-zero slope is dropped.
C7_ExactlyNonZeroSlopes ==
    Returned =>
        /\ ExactlyNonZero(data.component_weight, InTime, IsSaturatedScale)
        /\ ExactlyNonZero(data.component_reads, InReads, Untouched)
        /\ ExactlyNonZero(data.component_writes, InWrites, Untouched)

C7_Witness ==
    /\ Returned
    /\ InNames = <<"a", "z">>
    /\ InTime.slopes = <<Zero, U(3)>>
    /\ data.component_weight = <<[name |-> "z", slope |-> U(3000)]>>
    /\ InReads.slopes = <<U(3), Zero>>
    /\ data.component_reads = <<[name |-> "a", slope |-> U(3)]>>
    /\ InWrites.slopes = <<Zero, Zero>>
    /\ data.component_writes = <<>>

\* C10: the emitted weight of a fitted time v (base or slope) is
\* min(1000 * v, 2^128 - 1): the scaling saturates and never wraps.
C10_ScalingSaturates ==
    /\ DivFrom(U128Max, 1000, NumLimbs, 0) = [q |-> MaxScalable, r |-> 455]
    /\ MinSaturating = SubSeq(MulLimbs(MaxScalable, 1, 1), 1, NumLimbs)
    /\ Returned =>
        /\ IsSaturatedScale(data.base_weight, InTime.base)
        /\ EachSlope(data.component_weight, InTime, IsSaturatedScale)

C10_Witness ==
    /\ Returned
    /\ InTime.base = MinSaturating /\ data.base_weight = U128Max
    /\ InTime.slopes = <<U(3), MinSaturating>>
    /\ data.component_weight[1].slope = U(3000)
    /\ data.component_weight[2].slope = U128Max

(***************************************************************************)
(* underscore                                                              *)
(***************************************************************************)
\* A variant of separator_due without `idx != 0`.
separator_every_third(idx) == idx % 3 = 0
\* The test `idx != 0 && idx % 3 == 0` that puts a separator before val.
separator_due(idx) == idx # 0 /\ idx % 3 = 0

\* The loop `for (idx, val) in i_str.chars().rev().enumerate()`, from idx
\* on; acc is the local s.  s.insert(0, c) puts c in front of s.
RECURSIVE underscore_loop(_, _, _)
underscore_loop(chars, idx, acc) ==
    IF idx >= Len(chars) THEN acc
    ELSE LET val == chars[Len(chars) - idx]
             sep == IF separator_due(idx) THEN <<"_">> \o acc ELSE acc
         IN  underscore_loop(chars, idx + 1, <<val>> \o sep)

underscore(chars) == underscore_loop(chars, 0, <<>>)

Digits == {"0", "1", "9"}

InitUnderscore ==
    /\ i_str \in UNION {[1..n -> Digits] : n \in 0..MaxDigits}
    /\ s = None
    /\ WriterIdle /\ DataIdle

Underscore ==
    /\ s = None
    /\ s' = Some(underscore(i_str))
    /\ UNCHANGED <<i_str, writerVars, dataVars>>

NextUnderscore == Underscore

SpecUnderscore == InitUnderscore /\ [][NextUnderscore]_vars

\* C8: for a digit string, underscore's output without its '_' is the input,
\* it neither starts nor ends with '_', has no two adjacent '_', every '_'
\* is followed by a group of exactly 3 digits, the first group has 1 to 3
\* digits, and the empty string gives the empty string.
C8_ThousandsSeparator ==
    s # None =>
        LET str == s.val
            n == Len(str)
            isSep(p) == str[p] = "_"
            firstSep == IF \E p \in 1..n : isSep(p)
                        THEN CHOOSE p \in 1..n : isSep(p) /\ \A q \in 1..(p - 1) : ~isSep(q)
                        ELSE n + 1
        IN  /\ SelectSeq(str, LAMBDA c : c # "_") = i_str
            /\ (i_str = <<>>) => (str = <<>>)
            /\ n > 0 => ~isSep(1) /\ ~isSep(n)
            /\ \A p \in 1..(n - 1) : ~(isSep(p) /\ isSep(p + 1))
            /\ \A p \in 1..n : isSep(p) =>
                  /\ p + 3 <= n
                  /\ \A q \in (p + 1)..(p + 3) : str[q] \in Digits
                  /\ (p + 4 <= n) => isSep(p + 4)
            /\ (i_str # <<>>) => (firstSep - 1) \in 1..3

C8_Witness ==
    /\ i_str = <<"1", "0", "0", "0", "9", "9", "9">>
    /\ s = Some(<<"1", "_", "0", "0", "0", "_", "9", "9", "9">>)

(***************************************************************************)
(* map_results                                                             *)
(***************************************************************************)
Ok(v) == [tag |-> "Ok", val |-> v]
Err(e) == [tag |-> "Err", msg |-> e]

\* HashMap::new()
EmptyMap == <<>>

\* HashMap::insert: the value replaces the one stored under the key.
insert(map, key, value) ==
    [k \in DOMAIN map \cup {key} |-> IF k = key THEN value ELSE map[k]]

\* Vec::is_empty
is_empty(v) == Len(v) = 0

\* String::from_utf8(bytes).unwrap(), on valid UTF-8.
from_utf8(bytes) == bytes

\* map_results is entered with a non-empty slice: the two maps are new and
\* the iterator is at the first batch.
EnterMapResults ==
    /\ pc = "start" /\ ~is_empty(batches)
    /\ all_benchmarks' = EmptyMap
    /\ pallet_map' = EmptyMap
    /\ pos' = 0
    /\ pc' = "loop"
    /\ UNCHANGED <<batches, path, ret, todo, all_results, files, out,
                   dataVars, underscoreVars>>

\* A variant of MapResultsEmpty without the early return: the loop runs
\* over nothing and the empty map is returned.
MapResultsEmptyAsOk ==
    /\ pc = "start" /\ is_empty(batches)
    /\ ret' = Ok(EmptyMap)
    /\ pc' = "mapped"
    /\ UNCHANGED <<batches, path, pos, all_benchmarks, pallet_map, todo,
                   all_results, files, out, dataVars, underscoreVars>>
\* `if batches.is_empty() { return Err(io_error("empty batches")) }`
MapResultsEmpty ==
    /\ pc = "start" /\ is_empty(batches)
    /\ ret' = Err("empty batches")
    /\ pc' = "mapped"
    /\ UNCHANGED <<batches, path, pos, all_benchmarks, pallet_map, todo,
                   all_results, files, out, dataVars, underscoreVars>>

\* One iteration of the while loop on a batch without results: `continue`.
MapResultsSkip ==
    /\ pc = "loop" /\ pos < Len(batches)
    /\ is_empty(batches[pos + 1].results)
    /\ pos' = pos + 1
    /\ UNCHANGED <<batches, path, pc, all_benchmarks, pallet_map, ret, todo,
                   all_results, files, out, dataVars, underscoreVars>>

\* One iteration of the while loop on a batch with results.
MapResultsInsert ==
    /\ pc = "loop" /\ pos < Len(batches)
    /\ ~is_empty(batches[pos + 1].results)
    /\ LET b == batches[pos + 1]
           pallet_string == from_utf8(b.pallet)
           benchmark_string == from_utf8(b.benchmark)
           benchmark_data == get_benchmark_data(b)
           inserted == insert(pallet_map, benchmark_string, benchmark_data)
       IN  /\ pos' = pos + 1
           /\ IF pos + 1 < Len(batches)
              THEN \* peek() is Some(next)
                   LET next_pallet == from_utf8(batches[pos + 2].pallet)
                   IN  IF next_pallet # pallet_string
                       THEN /\ all_benchmarks' =
                                  insert(all_benchmarks, pallet_string, inserted)
                            /\ pallet_map' = EmptyMap
                       ELSE /\ all_benchmarks' = all_benchmarks
                            /\ pallet_map' = inserted
              ELSE \* the end of the iterator
                   /\ all_benchmarks' =
                         insert(all_benchmarks, pallet_string, inserted)
                   /\ pallet_map' = inserted
    /\ UNCHANGED <<batches, path, pc, ret, todo, all_results, files, out,
                   dataVars, underscoreVars>>

\* The iterator is exhausted: `Ok(all_benchmarks)`.
MapResultsReturn ==
    /\ pc = "loop" /\ pos = Len(batches)
    /\ ret' = Ok(all_benchmarks)
    /\ pc' = "mapped"
    /\ UNCHANGED <<batches, path, pos, all_benchmarks, pallet_map, todo,
                   all_results, files, out, dataVars, underscoreVars>>

NextMap ==
    \/ EnterMapResults
    \/ MapResultsEmpty
    \/ MapResultsSkip
    \/ MapResultsInsert
    \/ MapResultsReturn

(***************************************************************************)
(* Inputs of map_results.                                                  *)
(***************************************************************************)
\* Two results as test_data builds them: (param, z) with base + slope * i.
TestFit(base, slope) == [base |-> U(base), slopes |-> <<U(slope), U(0)>>]
TestResults(param, base, slope) ==
    <<[components |-> <<<<param, 0>>, <<26, 0>>>>,
       fit |-> [ExtrinsicTime |-> TestFit(base, slope),
                Reads         |-> TestFit(base, slope),
                Writes        |-> TestFit(base, slope)]]>>

ResultSamples == {<<>>, TestResults(1, 10, 3), TestResults(2, 3, 4)}
Pallets == {<<"p1">>, <<"p2">>, <<"p1", "x">>}
Benchmarks == {<<"b1">>, <<"b2">>}

BatchSamples ==
    {[pallet |-> p, benchmark |-> b, results |-> r] :
        p \in Pallets, b \in Benchmarks, r \in ResultSamples}

InitMap ==
    /\ batches \in UNION {[1..n -> BatchSamples] : n \in 0..MaxBatches}
    /\ path = <<>> /\ pc = "start" /\ pos = 0
    /\ all_benchmarks = EmptyMap /\ pallet_map = EmptyMap
    /\ ret = None /\ todo = {} /\ all_results = EmptyMap
    /\ files = <<>> /\ out = None
    /\ DataIdle /\ UnderscoreIdle

SpecMap == InitMap /\ [][NextMap]_vars

(***************************************************************************)
(* Claims about map_results (checked under SpecMap).                       *)
(***************************************************************************)
MapReturnedOk == pc = "mapped" /\ ret.tag = "Ok"
HasResults(i) == batches[i].results # <<>>

\* The batches of each pallet are contiguous.
Contiguous ==
    \A i, j, k \in 1..Len(batches) :
        (i < j /\ j < k /\ batches[i].pallet = batches[k].pallet)
            => batches[j].pallet = batches[i].pallet

\* C1: on a sequence whose pallets are contiguous, every batch with
\* results is found in the returned mapping under its pallet and its
\* benchmark name, wherever the batches without results sit.
C1_EveryBatchWithResultsIsMapped ==
    (MapReturnedOk /\ Contiguous) =>
        \A i \in 1..Len(batches) :
            HasResults(i) =>
                /\ batches[i].pallet \in DOMAIN ret.val
                /\ batches[i].benchmark \in DOMAIN ret.val[batches[i].pallet]

\* C6: on a sequence whose pallets are contiguous, every benchmark found
\* under a pallet in the returned mapping was produced from a batch of that
\* pallet.
C6_NoForeignBenchmark ==
    (MapReturnedOk /\ Contiguous) =>
        \A p \in DOMAIN ret.val :
            \A n \in DOMAIN ret.val[p] :
                \E i \in 1..Len(batches) :
                    /\ HasResults(i)
                    /\ batches[i].pallet = p
                    /\ batches[i].benchmark = n
                    /\ ret.val[p][n] = get_benchmark_data(batches[i])

\* The run of batch i: the maximal interval around i of batches of its
\* pallet.
SameRun(i, j) ==
    \A k \in 1..Len(batches) :
        ((i <= k /\ k <= j) \/ (j <= k /\ k <= i))
            => batches[k].pallet = batches[i].pallet
IsRunEnd(i) ==
    i = Len(batches) \/ batches[i + 1].pallet # batches[i].pallet
\* A run is flushed by its last batch, when that batch has results.
FlushedRunEnds(p) ==
    {i \in 1..Len(batches) :
        batches[i].pallet = p /\ IsRunEnd(i) /\ HasResults(i)}
RunEnds(p) == {i \in 1..Len(batches) : batches[i].pallet = p /\ IsRunEnd(i)}
Max(S) == CHOOSE x \in S : \A y \in S : y <= x

\* C9: for a pallet that appears in two or more runs, the mapping under
\* its key holds only the benchmarks of its last flushed run, each with the
\* data of the last batch of that name in that run.
C9_LastFlushedRunOnly ==
    MapReturnedOk =>
        \A p \in DOMAIN ret.val :
            (Cardinality(RunEnds(p)) >= 2 /\ FlushedRunEnds(p) # {}) =>
                LET e == Max(FlushedRunEnds(p))
                    Named(n) == {i \in 1..e : SameRun(i, e) /\ HasResults(i)
                                                /\ batches[i].benchmark = n}
                IN  \A n \in DOMAIN ret.val[p] :
                        /\ Named(n) # {}
                        /\ ret.val[p][n] = get_benchmark_data(batches[Max(Named(n))])

(***************************************************************************)
(* write_results                                                           *)
(***************************************************************************)
\* The component ".." of a path; no name has this form, a name's segments
\* being free of '.'.
ParentDir == <<"..">>

\* Path::file_name: None if the path is empty or terminates in "..".
file_name(pth) ==
    IF Len(pth) = 0 \/ pth[Len(pth)] = ParentDir THEN None
    ELSE Some(pth[Len(pth)])

\* PathBuf::push of a relative name.
push(pth, name) == Append(pth, name)

\* Path::file_stem of a file name: the whole name if it has no '.' or only
\* a leading one, otherwise the name before its last '.'.
file_stem(name) ==
    IF Len(name) = 1 \/ (Len(name) = 2 /\ name[1] = "") THEN name
    ELSE SubSeq(name, 1, Len(name) - 1)

\* PathBuf::set_extension with a non-empty extension: nothing without a
\* file name, otherwise the file name becomes <stem>.<extension>.
set_extension(pth, extension) ==
    IF file_name(pth) = None THEN pth
    ELSE [pth EXCEPT ![Len(pth)] = Append(file_stem(pth[Len(pth)]), extension)]

\* The file the loop body writes for `pallet`.
file_path_of(pallet) ==
    IF file_name(path) = None
    THEN set_extension(push(path, pallet), "rs")
    ELSE path

\* What render_template_to_write leaves in the file: the rendering of
\* hbs_data, of which pallet and benchmarks vary between the files of a call.
Rendering(pallet, results) ==
    [tag |-> "rendered", pallet |-> pallet, benchmarks |-> results]
\* A file just created or truncated by File::create.
EmptyFile == [tag |-> "empty"]
\* A file left by an earlier run.
OldFile == [tag |-> "old"]

\* The directories that exist; File::create fails on them.
Dirs == {<<<<"out">>>>}
Paths == {<<ParentDir>>, <<<<"out">>>>, <<<<"out">>, <<"weights", "rs">>>>}
InitFiles == (<<<<"out">>, <<"weights", "rs">>>> :> OldFile)

\* fs::read_to_string(template_file)? or fs::read_to_string(header_file)?
\* fails: write_results returns the I/O error before map_results is called.
ReadInputsFail ==
    /\ pc = "start"
    /\ out' = Err("io")
    /\ pc' = "done"
    /\ UNCHANGED <<batches, path, pos, all_benchmarks, pallet_map, ret, todo,
                   all_results, files, dataVars, underscoreVars>>

\* `map_results(batches)?` on Err: write_results returns the error.
PropagateErr ==
    /\ pc = "mapped" /\ ret.tag = "Err"
    /\ out' = ret
    /\ pc' = "done"
    /\ UNCHANGED <<batches, path, pos, all_benchmarks, pallet_map, ret, todo,
                   all_results, files, dataVars, underscoreVars>>

\* `let all_results = map_results(batches)?` on Ok: the for loop starts.
BeginWrite ==
    /\ pc = "mapped" /\ ret.tag = "Ok"
    /\ all_results' = ret.val
    /\ todo' = DOMAIN ret.val
    /\ pc' = "write"
    /\ UNCHANGED <<batches, path, pos, all_benchmarks, pallet_map, ret, files,
                   out, dataVars, underscoreVars>>

\* One iteration of `for (pallet, results) in all_results.into_iter()`, in
\* the order the HashMap yields: the file is created and rendered.
WriteFile ==
    /\ pc = "write"
    /\ \E pallet \in todo :
         LET file_path == file_path_of(pallet)
         IN  /\ file_path \notin Dirs
             /\ files' = insert(files, file_path,
                                 Rendering(pallet, all_results[pallet]))
             /\ todo' = todo \ {pallet}
    /\ UNCHANGED <<batches, path, pc, pos, all_benchmarks, pallet_map, ret,
                   all_results, out, dataVars, underscoreVars>>

\* `fs::File::create(file_path)?` fails: nothing is written.
CreateFails ==
    /\ pc = "write"
    /\ todo # {}
    /\ out' = Err("io")
    /\ pc' = "done"
    /\ UNCHANGED <<batches, path, pos, all_benchmarks, pallet_map, ret, todo,
                   all_results, files, dataVars, underscoreVars>>

\* The file is created and render_template_to_write fails.
RenderFails ==
    /\ pc = "write"
    /\ \E pallet \in todo :
         LET file_path == file_path_of(pallet)
         IN  /\ file_path \notin Dirs
             /\ files' = insert(files, file_path, EmptyFile)
    /\ out' = Err("render")
    /\ pc' = "done"
    /\ UNCHANGED <<batches, path, pos, all_benchmarks, pallet_map, ret, todo,
                   all_results, dataVars, underscoreVars>>

\* The loop is over: `Ok(())`.
WriteReturn ==
    /\ pc = "write" /\ todo = {}
    /\ out' = Ok(<<>>)
    /\ pc' = "done"
    /\ UNCHANGED <<batches, path, pos, all_benchmarks, pallet_map, ret, todo,
                   all_results, files, dataVars, underscoreVars>>

Init ==
    /\ batches \in UNION {[1..n -> BatchSamples] : n \in 0..MaxWriteBatches}
    /\ path \in Paths
    /\ pc = "start" /\ pos = 0
    /\ all_benchmarks = EmptyMap /\ pallet_map = EmptyMap
    /\ ret = None /\ todo = {} /\ all_results = EmptyMap
    /\ files = InitFiles /\ out = None
    /\ DataIdle /\ UnderscoreIdle

Next ==
    \/ ReadInputsFail
    \/ EnterMapResults
    \/ MapResultsEmpty
    \/ MapResultsSkip
    \/ MapResultsInsert
    \/ MapResultsReturn
    \/ PropagateErr
    \/ BeginWrite
    \/ WriteFile
    \/ CreateFails
    \/ RenderFails
    \/ WriteReturn

Spec == Init /\ [][Next]_vars

(***************************************************************************)
(* Claims about write_results (checked under Spec).                        *)
(***************************************************************************)
WriteReturnedOk == pc = "done" /\ out.tag = "Ok"
RenderedFiles == {f \in DOMAIN files : files[f].tag = "rendered"}

\* C2: after a successful call there is one output file per pallet of the
\* grouped result, each holding the rendering of that pallet's benchmarks,
\* whatever the path argument is.
C2_OneFilePerPallet ==
    WriteReturnedOk =>
        /\ \A p \in DOMAIN all_results :
              \E f \in DOMAIN files : files[f] = Rendering(p, all_results[p])
        /\ Cardinality(RenderedFiles) = Cardinality(DOMAIN all_results)

\* C5: map_results returns Err("empty batches") exactly on the empty
\* sequence and Ok otherwise, Ok of the empty mapping when no batch has
\* results; write_results returns map_results' error, and on the empty
\* sequence it returns Err and leaves every file as it was.
C5_EmptyBatchesIsTheOnlyError ==
    /\ ret # None =>
        /\ (ret = Err("empty batches")) <=> (batches = <<>>)
        /\ (batches # <<>>) => (ret.tag = "Ok")
        /\ (batches # <<>> /\ \A i \in 1..Len(batches) : batches[i].results = <<>>)
                => (ret = Ok(EmptyMap))
    /\ (pc = "done" /\ ret.tag = "Err") => (out = ret)
    /\ (pc = "done" /\ batches = <<>>) => (out.tag = "Err" /\ files = InitFiles)

C5_Witness ==
    /\ pc = "done" /\ batches = <<>>
    /\ ret = Err("empty batches") /\ out = Err("empty batches")
    /\ path = <<<<"out">>, <<"weights", "rs">>>>
    /\ files = InitFiles

====
